---- MODULE Spec2Model ----
(***************************************************************************)
(* Hotel booking application (Django): bookings, their audit history and   *)
(* the request handlers of main/views.py that create, update, confirm and  *)
(* cancel them, behind RoleRequiredMiddleware (main/middleware.py).        *)
(*                                                                         *)
(* Dates are day numbers 0..MaxDay; `today` is timezone.localdate().       *)
(* Money is an integer number of currency units.                           *)
(*                                                                         *)
(* Every request is made by a logged-in user. A request that is refused    *)
(* writes nothing, so it is a step that leaves every variable unchanged;   *)
(* what a handler answers is given by its ...Checks operator.              *)
(*                                                                         *)
(* Spec serves one request at a time. SpecConc splits the create and the   *)
(* update request into their check and save steps and interleaves them.    *)
(* SpecFail runs the create request in its two statements, with a failure  *)
(* between them. SpecSearch adds the availability search of main/models.py *)
(* and SpecReview the review views and the review actions of main/admin.py;*)
(* both book the two rooms, and what a search or a list request answers is *)
(* kept in `response` until the next request.                              *)
(* SpecReply has the review views with the owner's reply and the          *)
(* moderator's comment; SpecUnique has reviews by a further guest;         *)
(* SpecAvail has searches beside bookings for any dates; SpecRoom has the  *)
(* room views that store images; SpecMiddleware runs the middleware on     *)
(* request paths.                                                          *)
(***************************************************************************)
EXTENDS Integers, FiniteSets, Sequences, TLC

\* ------------------------------------------------------------------ bounds
MaxDay == 3
MaxToday == 1
MaxBookings == 2
MaxInflight == 2
MaxReviews == 2
MaxLen == 3
MaxNewRooms == 1
MaxFiles == 6
MaxPath == 3

\* ------------------------------------------------------------- entity store
\* User rows. u1 and u2 have role 'user' (the default); u3 has role 'staff'.
Users == {"u1", "u2", "u3"}

\* u4 is one more user with role 'user', who owns no room and makes requests
\* in SpecUnique only.
Accounts == Users \cup {"u4"}

role == [u \in Accounts |-> IF u = "u3" THEN "staff" ELSE "user"]

is_superuser == [u \in Accounts |-> FALSE]

\* models.User.is_admin
is_admin(u) == role[u] = "admin" \/ is_superuser[u]

\* models.User.is_staff
is_staff(u) == role[u] \in {"staff", "admin"} \/ is_superuser[u]

\* Room rows: room 1 belongs to u1 and room 3 to u2 (room_owner is set at
\* creation, views.py:312, and no form changes it); NoRoom is a primary key
\* with no row.
Rooms == {1, 3}
NoRoom == 2

\* The room keys named by the requests of Spec, SpecConc and SpecFail: room 1
\* and the key of no room. Room 3 is booked in SpecSearch and SpecReview.
RoomIds == {1, NoRoom}

room_owner == [r \in Rooms |-> IF r = 1 THEN "u1" ELSE "u2"]

price_per_night == [r \in Rooms |-> 1000]

\* models.User.is_owner: self.rooms.exists()
is_owner(u) == \E r \in Rooms : room_owner[r] = u

\* Text is a sequence of characters; " " is the whitespace character.
Chars == {"a", "A", " "}

\* Room.address, as RoomCreateForm stores it (a form CharField strips the
\* value and refuses an empty one): room 1 is in "A", room 3 in "aa".
address == [r \in Rooms |-> IF r = 1 THEN <<"A">> ELSE <<"a", "a">>]

\* The destinations a search is made with: every text of at most MaxLen
\* characters.
Destinations == UNION {[1..k -> Chars] : k \in 0..MaxLen}

Days == 0..MaxDay
BookingIds == 1..MaxBookings
ReviewIds == 1..MaxReviews

\* models.BookingStatus
PENDING == "Pending"
CONFIRMED == "Confirmed"
CANCELLED == "Cancelled"
BookingStatus == {PENDING, CONFIRMED, CANCELLED}

NoBooking == [status |-> "absent"]
NoHistory == [new_status |-> "absent"]
NoReview == [status |-> "absent"]

\* models.ReviewStatus
REVIEW_PENDING == "pending"
APPROVED == "approved"
REJECTED == "rejected"
ReviewStatus == {REVIEW_PENDING, APPROVED, REJECTED}

\* NULL in Review.moderated_by, Review.moderated_at and Review.owner_reply_at
NoUser == "None"
NoTime == -1

\* A request without a session: request.user.is_authenticated is False.
Anonymous == "anonymous"
Viewers == Users \cup {Anonymous}

\* Values POSTed as rating: 0 is below MinValueValidator(1).
Ratings == {0, 1, 5}

\* Texts POSTed as owner_reply.
ReplyTexts == {"thanks", "sorry"}
Comments == {"", "spam"}
NoResponse == [view |-> "none"]
NoRoomRow == [room_owner |-> NoUser]

\* Primary keys of Room rows: the two rooms that are booked, and the rooms
\* that RoomCreateView adds (they take no bookings in the model).
NewRoomIds == 4..(3 + MaxNewRooms)
RoomKeys == Rooms \cup NewRoomIds

\* views.MAX_GALLERY_PHOTOS
MAX_GALLERY_PHOTOS == 5

\* HTTP methods a client sends; the function views only tell POST from the rest.
Methods == {"GET", "POST", "DELETE"}
FormMethods == {"GET", "POST"}

VARIABLES
    today,      \* timezone.localdate()
    is_active,  \* Room.is_active, per room
    bookings,   \* Booking rows by primary key (NoBooking: no such row)
    history,    \* the BookingHistory row of each booking (OneToOneField)
    nextId,     \* next value of Booking's AutoField
    inflight,   \* requests that passed their checks and have not saved yet
    reviews,    \* Review rows by primary key (NoReview: no such row)
    nextReviewId,   \* next value of Review's AutoField
    response,   \* what the last list or search request answered
    images      \* per Room row: its owner, whether room_photo is set, and
                \* the number of its RoomImage rows (NoRoomRow: no such row)

vars == <<today, is_active, bookings, history, nextId, inflight,
          reviews, nextReviewId, response, images>>

Exists(b) == bookings[b] # NoBooking

Existing == {b \in BookingIds : Exists(b)}

Active(b) == Exists(b) /\ bookings[b].status \in {CONFIRMED, PENDING}

\* ------------------------------------------------------------- middleware
\* RoleRequiredMiddleware.__call__ for an authenticated user. `urls` is the
\* pattern list the request path matches: "user_only" for /booking/room/N/create/,
\* /booking/N/update/ and /booking/N/delete/, "login" for /booking/N/confirm/.
RoleRequiredMiddleware(u, urls) ==
    IF urls = "user_only" /\ (is_admin(u) \/ is_staff(u) \/ is_superuser[u])
    THEN "access_denied"
    ELSE "pass"

\* UserRequiredMixin.test_func for an authenticated user
UserRequiredMixin(u) == ~is_admin(u) /\ ~is_staff(u) /\ ~is_superuser[u]

\* ------------------------------------------------------------------ forms
\* BookingCreateForm.clean_check_in_date and BookingCreateForm.clean
\* (BookingUpdateForm inherits both)
BookingCreateForm(ci, co) == ~(ci < today) /\ ~(ci >= co)

\* ------------------------------------------------------- conflict resolver
\* Mutant of conflicting_bookings: the overlap test exclusive at both ends.
conflicting_bookings_strict(r, ci, co, exclude) ==
    {b \in Existing :
        /\ bookings[b].room = r
        /\ bookings[b].check_in_date < co
        /\ bookings[b].check_out_date > ci
        /\ bookings[b].status \in {CONFIRMED, PENDING}
        /\ b # exclude}

\* The queryset of views.py:407-412 (create) and 479-484 (update, with
\* .exclude(pk=booking.pk); `exclude` is 0 when nothing is excluded).
conflicting_bookings(r, ci, co, exclude) ==
    {b \in Existing :
        /\ bookings[b].room = r
        /\ bookings[b].check_in_date <= co
        /\ bookings[b].check_out_date >= ci
        /\ bookings[b].status \in {CONFIRMED, PENDING}
        /\ b # exclude}

\* Mutant of total_cost: both end days counted as nights.
total_cost_inclusive(r, ci, co) == price_per_night[r] * (co - ci + 1)

\* nights = (check_out - check_in).days; total_cost = price_per_night * nights
total_cost(r, ci, co) == price_per_night[r] * (co - ci)

Init ==
    /\ today = 0
    /\ is_active = [r \in Rooms |-> TRUE]
    /\ bookings = [b \in BookingIds |-> NoBooking]
    /\ history = [b \in BookingIds |-> NoHistory]
    /\ nextId = 1
    /\ inflight = {}
    /\ reviews = [i \in ReviewIds |-> NoReview]
    /\ nextReviewId = 1
    /\ response = NoResponse
    /\ images = [k \in RoomKeys |->
            IF k \in Rooms
            THEN [room_owner |-> room_owner[k], room_photo |-> FALSE, gallery |-> 0]
            ELSE NoRoomRow]

\* Mutant of CreateChecks: the conflict query left out.
CreateChecks_noConflict(u, r, ci, co) ==
    IF RoleRequiredMiddleware(u, "user_only") # "pass" THEN "access_denied"
    ELSE IF ~(r \in Rooms /\ is_active[r]) THEN "not_found"
    ELSE IF room_owner[r] = u THEN "self_booking"
    ELSE IF ~UserRequiredMixin(u) THEN "access_denied"
    ELSE IF ~BookingCreateForm(ci, co) THEN "invalid_dates"
    ELSE "ok"

\* Mutant of CreateChecks: the owner check made in form_valid, after the form
\* has been validated, instead of in dispatch.
CreateChecks_ownerInFormValid(u, r, ci, co) ==
    IF RoleRequiredMiddleware(u, "user_only") # "pass" THEN "access_denied"
    ELSE IF ~(r \in Rooms /\ is_active[r]) THEN "not_found"
    ELSE IF ~UserRequiredMixin(u) THEN "access_denied"
    ELSE IF ~BookingCreateForm(ci, co) THEN "invalid_dates"
    ELSE IF room_owner[r] = u THEN "self_booking"
    ELSE IF conflicting_bookings(r, ci, co, 0) # {} THEN "conflict"
    ELSE "ok"

\* --------------------------------------------------------- BookingCreateView
\* What a POST to BookingCreateView answers before anything is saved:
\* middleware, dispatch (room lookup, owner check, UserRequiredMixin), form
\* validation, conflict query. "ok" means form_valid goes on to save.
CreateChecks(u, r, ci, co) ==
    IF RoleRequiredMiddleware(u, "user_only") # "pass" THEN "access_denied"
    ELSE IF ~(r \in Rooms /\ is_active[r]) THEN "not_found"
    ELSE IF room_owner[r] = u THEN "self_booking"
    ELSE IF ~UserRequiredMixin(u) THEN "access_denied"
    ELSE IF ~BookingCreateForm(ci, co) THEN "invalid_dates"
    ELSE IF conflicting_bookings(r, ci, co, 0) # {} THEN "conflict"
    ELSE "ok"

\* super().form_valid(form) saves the row; BookingHistory.objects.create(...)
SaveCreate(u, r, ci, co) ==
    /\ bookings' = [bookings EXCEPT ![nextId] =
            [guest |-> u, room |-> r, check_in_date |-> ci,
             check_out_date |-> co, status |-> PENDING,
             total_cost |-> total_cost(r, ci, co)]]
    /\ history' = [history EXCEPT ![nextId] =
            [old_status |-> "", new_status |-> PENDING,
             changed_by |-> "SYSTEM", change_description |-> "created"]]
    /\ nextId' = nextId + 1

\* A POST with both dates filled in (a GET renders the empty form; a missing
\* date fails the form like an invalid one).
BookingCreateView(u, r, ci, co) ==
    /\ nextId <= MaxBookings
    /\ LET res == CreateChecks(u, r, ci, co) IN
        IF res = "ok"
        THEN SaveCreate(u, r, ci, co)
        ELSE UNCHANGED <<bookings, history, nextId>>
    /\ UNCHANGED <<today, is_active, inflight, reviews, nextReviewId, response, images>>

\* Mutant of DeleteViewObject: get_queryset() without filter(guest=request.user).
DeleteViewObject_anyGuest(u, b) == Exists(b)

\* --------------------------------------------------------- BookingDeleteView
\* The result of get_object(): None when no row of get_queryset()
\* (filter(guest=request.user)) has this primary key (Http404).
DeleteViewObject(u, b) == Exists(b) /\ bookings[b].guest = u

\* Mutant of BookingDeleteView.delete: the status becomes Cancelled and the
\* history row is left as it was.
BookingDeleteView_delete_keepHistory(u, b) ==
    /\ bookings' = [bookings EXCEPT ![b].status = CANCELLED]
    /\ UNCHANGED <<history, reviews>>

\* BookingDeleteView.delete: the handler View.dispatch picks for the HTTP method
\* DELETE. The status becomes Cancelled and the history row is written with
\* update_or_create (all four defaults are set whether or not the row existed).
BookingDeleteView_delete(u, b) ==
    /\ bookings' = [bookings EXCEPT ![b].status = CANCELLED]
    /\ history' = [history EXCEPT ![b] =
            [old_status |-> bookings[b].status, new_status |-> CANCELLED,
             changed_by |-> u, change_description |-> "cancelled"]]
    /\ UNCHANGED reviews

\* POST: BookingDeleteView defines neither post() nor form_valid(), so the
\* request is handled by the generic DeleteView it inherits. From Django 4.0 on
\* (models.py:134, a CharField without max_length, needs Django >= 4.2)
\* BaseDeleteView.post() calls form_valid(), which calls self.object.delete():
\* the overridden delete() handler is not used, the row is removed and the
\* BookingHistory row and the Review row go with it (on_delete=CASCADE).
BookingDeleteView_post(u, b) ==
    /\ bookings' = [bookings EXCEPT ![b] = NoBooking]
    /\ history' = [history EXCEPT ![b] = NoHistory]
    /\ reviews' = [i \in ReviewIds |->
            IF reviews[i] # NoReview /\ reviews[i].booking = b
            THEN NoReview ELSE reviews[i]]

BookingDeleteView(u, b, method) ==
    /\ IF RoleRequiredMiddleware(u, "user_only") # "pass" \/ ~UserRequiredMixin(u)
       THEN UNCHANGED <<bookings, history, reviews>>
       ELSE IF ~DeleteViewObject(u, b)
       THEN UNCHANGED <<bookings, history, reviews>>
       ELSE IF method = "DELETE"
       THEN BookingDeleteView_delete(u, b)
       ELSE IF method = "POST"
       THEN BookingDeleteView_post(u, b)
       ELSE UNCHANGED <<bookings, history, reviews>>
    /\ UNCHANGED <<today, is_active, nextId, inflight, nextReviewId, response, images>>

\* ------------------------------------------------------- update_booking_view
\* Mutant of UpdateChecks: the conflict query left out.
UpdateChecks_noConflict(u, b, ci, co) ==
    IF RoleRequiredMiddleware(u, "user_only") # "pass" THEN "access_denied"
    ELSE IF ~(Exists(b) /\ bookings[b].guest = u) THEN "not_found"
    ELSE IF ~BookingCreateForm(ci, co) THEN "invalid_dates"
    ELSE "ok"

\* What a POST answers before anything is saved (views.py:470-498).
UpdateChecks(u, b, ci, co) ==
    IF RoleRequiredMiddleware(u, "user_only") # "pass" THEN "access_denied"
    ELSE IF ~(Exists(b) /\ bookings[b].guest = u) THEN "not_found"
    ELSE IF ~BookingCreateForm(ci, co) THEN "invalid_dates"
    ELSE IF conflicting_bookings(bookings[b].room, ci, co, b) # {} THEN "conflict"
    ELSE "ok"

\* Mutant of SaveUpdate: the dates are stored and total_cost is not recomputed.
SaveUpdate_keepCost(u, b, loaded, ci, co) ==
    /\ bookings' = [bookings EXCEPT ![b] =
            [loaded EXCEPT !.check_in_date = ci, !.check_out_date = co]]
    /\ history' = [history EXCEPT ![b] =
            IF history[b] = NoHistory
            THEN [old_status |-> loaded.status, new_status |-> loaded.status,
                  changed_by |-> u, change_description |-> "dates_changed"]
            ELSE [history[b] EXCEPT !.change_description = "dates_changed",
                                    !.changed_by = u]]

\* Mutant of SaveUpdate: the changed booking goes back to Pending, and the
\* history row records the change of status.
SaveUpdate_resetStatus(u, b, loaded, ci, co) ==
    /\ bookings' = [bookings EXCEPT ![b] =
            [loaded EXCEPT !.total_cost = total_cost(loaded.room, ci, co),
                           !.check_in_date = ci,
                           !.check_out_date = co,
                           !.status = PENDING]]
    /\ history' = [history EXCEPT ![b] =
            [old_status |-> loaded.status, new_status |-> PENDING,
             changed_by |-> u, change_description |-> "dates_changed"]]

\* views.py:500-521. `loaded` is the Booking instance the view fetched at
\* line 470; booking.save() writes every field of that instance.
SaveUpdate(u, b, loaded, ci, co) ==
    /\ bookings' = [bookings EXCEPT ![b] =
            [loaded EXCEPT !.total_cost = total_cost(loaded.room, ci, co),
                           !.check_in_date = ci,
                           !.check_out_date = co]]
    /\ history' = [history EXCEPT ![b] =
            IF history[b] = NoHistory
            THEN [old_status |-> loaded.status, new_status |-> loaded.status,
                  changed_by |-> u, change_description |-> "dates_changed"]
            ELSE [history[b] EXCEPT !.change_description = "dates_changed",
                                    !.changed_by = u]]

update_booking_view(u, b, method, ci, co) ==
    /\ LET res == UpdateChecks(u, b, ci, co) IN
        IF res \in {"access_denied", "not_found"}
        THEN UNCHANGED <<bookings, history>>
        ELSE IF method # "POST"
        THEN UNCHANGED <<bookings, history>>
        ELSE IF res = "ok"
        THEN SaveUpdate(u, b, bookings[b], ci, co)
        ELSE UNCHANGED <<bookings, history>>
    /\ UNCHANGED <<today, is_active, nextId, inflight, reviews, nextReviewId, response, images>>

\* ------------------------------------------------------ confirm_booking_view
\* Mutant of may_confirm: the permission check left out.
may_confirm_anyone(u, b) == TRUE

\* views.py:585, negated: the actor is the booking's guest or the room's owner.
may_confirm(u, b) ==
    ~(bookings[b].guest # u /\ room_owner[bookings[b].room] # u)

\* Mutant of confirm_booking_view: a POST on a booking that is already
\* Confirmed puts it back to Pending.
confirm_booking_view_toggle(u, b, method) ==
    /\ IF RoleRequiredMiddleware(u, "login") # "pass" \/ ~Exists(b)
       THEN UNCHANGED <<bookings, history>>
       ELSE IF ~may_confirm(u, b) \/ method # "POST"
       THEN UNCHANGED <<bookings, history>>
       ELSE LET new == IF bookings[b].status = CONFIRMED
                       THEN PENDING ELSE CONFIRMED IN
            /\ bookings' = [bookings EXCEPT ![b].status = new]
            /\ history' = [history EXCEPT ![b] =
                    [old_status |-> bookings[b].status,
                     new_status |-> new,
                     changed_by |-> u,
                     change_description |-> "confirmed"]]
    /\ UNCHANGED <<today, is_active, nextId, inflight, reviews, nextReviewId, response, images>>

confirm_booking_view(u, b, method) ==
    /\ IF RoleRequiredMiddleware(u, "login") # "pass"
       THEN UNCHANGED <<bookings, history>>
       ELSE IF ~Exists(b)
       THEN UNCHANGED <<bookings, history>>
       ELSE IF ~may_confirm(u, b)
       THEN UNCHANGED <<bookings, history>>
       ELSE IF method = "POST"
       THEN /\ bookings' = [bookings EXCEPT ![b].status = CONFIRMED]
            /\ history' = [history EXCEPT ![b] =
                    [old_status |-> bookings[b].status,
                     new_status |-> CONFIRMED,
                     changed_by |-> u,
                     change_description |-> "confirmed"]]
       ELSE UNCHANGED <<bookings, history>>
    /\ UNCHANGED <<today, is_active, nextId, inflight, reviews, nextReviewId, response, images>>

\* ------------------------------------------------------------------- admin
\* RoomAdmin.activate_rooms / deactivate_rooms on a queryset of one room. The
\* admin site lets in users with is_staff (AdminSite.has_permission).
activate_rooms(u, r) ==
    /\ is_staff(u)
    /\ ~is_active[r]
    /\ is_active' = [is_active EXCEPT ![r] = TRUE]
    /\ UNCHANGED <<today, bookings, history, nextId, inflight, reviews, nextReviewId, response, images>>

deactivate_rooms(u, r) ==
    /\ is_staff(u)
    /\ is_active[r]
    /\ is_active' = [is_active EXCEPT ![r] = FALSE]
    /\ UNCHANGED <<today, bookings, history, nextId, inflight, reviews, nextReviewId, response, images>>

\* The clock: timezone.localdate() moves to the next day.
Tick ==
    /\ today < MaxToday
    /\ today' = today + 1
    /\ UNCHANGED <<is_active, bookings, history, nextId, inflight, reviews, nextReviewId, response, images>>

Next ==
    \/ \E u \in Users, r \in RoomIds, ci \in Days, co \in Days :
            BookingCreateView(u, r, ci, co)
    \/ \E u \in Users, b \in BookingIds, m \in Methods :
            BookingDeleteView(u, b, m)
    \/ \E u \in Users, b \in BookingIds, m \in FormMethods, ci \in Days, co \in Days :
            update_booking_view(u, b, m, ci, co)
    \/ \E u \in Users, b \in BookingIds, m \in FormMethods :
            confirm_booking_view(u, b, m)
    \/ \E u \in Users, r \in RoomIds \cap Rooms : activate_rooms(u, r)
    \/ \E u \in Users, r \in RoomIds \cap Rooms : deactivate_rooms(u, r)
    \/ Tick

Spec == Init /\ [][Next]_vars

\* ------------------------------------------------ interleaved request handling
\* Two requests served by different workers: each runs its checks (up to the
\* conflict query, views.py:407-415 and 479-498) and later saves (views.py:420-428
\* and 500-521). Neither view opens a transaction or locks a row, and Booking
\* (models.py:169-192) has no constraint over room and dates, so other requests
\* may run between the two steps.
CreatesInflight == {q \in inflight : q.kind = "create"}

CheckCreate(u, r, ci, co) ==
    /\ Cardinality(inflight) < MaxInflight
    /\ nextId + Cardinality(CreatesInflight) <= MaxBookings
    /\ CreateChecks(u, r, ci, co) = "ok"
    /\ inflight' = inflight \cup
            {[kind |-> "create", user |-> u, target |-> r, loaded |-> NoBooking,
              check_in |-> ci, check_out |-> co]}
    /\ UNCHANGED <<today, is_active, bookings, history, nextId, reviews, nextReviewId, response, images>>

CommitCreate(q) ==
    /\ q.kind = "create"
    /\ SaveCreate(q.user, q.target, q.check_in, q.check_out)
    /\ inflight' = inflight \ {q}
    /\ UNCHANGED <<today, is_active, reviews, nextReviewId, response, images>>

CheckUpdate(u, b, ci, co) ==
    /\ Cardinality(inflight) < MaxInflight
    /\ UpdateChecks(u, b, ci, co) = "ok"
    /\ inflight' = inflight \cup
            {[kind |-> "update", user |-> u, target |-> b, loaded |-> bookings[b],
              check_in |-> ci, check_out |-> co]}
    /\ UNCHANGED <<today, is_active, bookings, history, nextId, reviews, nextReviewId, response, images>>

CommitUpdate(q) ==
    /\ q.kind = "update"
    /\ SaveUpdate(q.user, q.target, q.loaded, q.check_in, q.check_out)
    /\ inflight' = inflight \ {q}
    /\ UNCHANGED <<today, is_active, nextId, reviews, nextReviewId, response, images>>

NextConc ==
    \/ \E u \in Users, r \in RoomIds, ci \in Days, co \in Days :
            CheckCreate(u, r, ci, co)
    \/ \E q \in inflight : CommitCreate(q)
    \/ \E u \in Users, b \in BookingIds, ci \in Days, co \in Days :
            CheckUpdate(u, b, ci, co)
    \/ \E q \in inflight : CommitUpdate(q)

SpecConc == Init /\ [][NextConc]_vars

\* ------------------------------------------- BookingCreateView, failing midway
\* form_valid is two statements with no transaction around them (views.py has
\* no transaction.atomic; Django's default is autocommit): the INSERT of
\* super().form_valid(form) is committed when it returns, and the request
\* has BookingHistory.objects.create(...) still to run.
form_valid_save(u, r, ci, co) ==
    /\ inflight = {}
    /\ nextId <= MaxBookings
    /\ CreateChecks(u, r, ci, co) = "ok"
    /\ bookings' = [bookings EXCEPT ![nextId] =
            [guest |-> u, room |-> r, check_in_date |-> ci,
             check_out_date |-> co, status |-> PENDING,
             total_cost |-> total_cost(r, ci, co)]]
    /\ nextId' = nextId + 1
    /\ inflight' = {[kind |-> "history", user |-> u, target |-> nextId,
                     loaded |-> NoBooking, check_in |-> ci, check_out |-> co]}
    /\ UNCHANGED <<today, is_active, history, reviews, nextReviewId, response, images>>

\* BookingHistory.objects.create(booking=self.object, ...), then the response.
form_valid_history(q) ==
    /\ q.kind = "history"
    /\ history' = [history EXCEPT ![q.target] =
            [old_status |-> "", new_status |-> PENDING,
             changed_by |-> "SYSTEM", change_description |-> "created"]]
    /\ inflight' = inflight \ {q}
    /\ UNCHANGED <<today, is_active, bookings, nextId, reviews, nextReviewId, response, images>>

\* The request dies before the second statement (database error, worker
\* killed): nothing undoes the committed INSERT.
form_valid_fails(q) ==
    /\ q.kind = "history"
    /\ inflight' = inflight \ {q}
    /\ UNCHANGED <<today, is_active, bookings, history, nextId, reviews, nextReviewId, response, images>>

\* One request at a time, the create request in its two statements.
NextFail ==
    \/ \E u \in Users, r \in RoomIds, ci \in Days, co \in Days :
            form_valid_save(u, r, ci, co)
    \/ \E q \in inflight : form_valid_history(q)
    \/ \E q \in inflight : form_valid_fails(q)
    \/ \E u \in Users, b \in BookingIds, m \in Methods :
            inflight = {} /\ BookingDeleteView(u, b, m)
    \/ \E u \in Users, b \in BookingIds, m \in FormMethods,
          ci \in Days, co \in Days :
            inflight = {} /\ update_booking_view(u, b, m, ci, co)
    \/ \E u \in Users, b \in BookingIds, m \in FormMethods :
            inflight = {} /\ confirm_booking_view(u, b, m)
    \/ inflight = {} /\ Tick

SpecFail == Init /\ [][NextFail]_vars

\* ------------------------------------------------------------------- search
\* str.strip(): leading and trailing whitespace removed.
RECURSIVE lstrip(_)
lstrip(s) == IF s # <<>> /\ Head(s) = " " THEN lstrip(Tail(s)) ELSE s

RECURSIVE rstrip(_)
rstrip(s) ==
    IF s # <<>> /\ s[Len(s)] = " " THEN rstrip(SubSeq(s, 1, Len(s) - 1)) ELSE s

strip(s) == rstrip(lstrip(s))

\* Case folding of one character, as the database does for __iexact.
lower(c) == IF c = "A" THEN "a" ELSE c

\* The lookup address__iexact=y on a stored value x.
iexact(x, y) ==
    /\ Len(x) = Len(y)
    /\ \A i \in 1..Len(x) : lower(x[i]) = lower(y[i])

\* Mutant of get_available_rooms: Cancelled bookings block a room too.
get_available_rooms_anyStatus(dest, check_in_date, check_out_date) ==
    LET address_normalized == strip(dest)
        rooms == {r \in Rooms :
                    is_active[r] /\ iexact(address[r], address_normalized)}
        booked == {b \in Existing :
                    /\ bookings[b].room \in rooms
                    /\ bookings[b].check_in_date <= check_out_date
                    /\ bookings[b].check_out_date >= check_in_date}
    IN  IF address_normalized = <<>> THEN {}
        ELSE rooms \ {bookings[b].room : b \in booked}

\* RoomManager.get_available_rooms, as the set of rooms of the queryset it
\* returns (order_by('price_per_night') orders them).
get_available_rooms(dest, check_in_date, check_out_date) ==
    LET address_normalized == strip(dest)
        rooms == {r \in Rooms :
                    is_active[r] /\ iexact(address[r], address_normalized)}
        booked == {b \in Existing :
                    /\ bookings[b].room \in rooms
                    /\ bookings[b].check_in_date <= check_out_date
                    /\ bookings[b].check_out_date >= check_in_date
                    /\ bookings[b].status \in {CONFIRMED, PENDING}}
    IN  IF address_normalized = <<>> THEN {}
        ELSE rooms \ {bookings[b].room : b \in booked}

\* A search: Room.objects.get_available_rooms(destination, check_in, check_out)
\* is evaluated on the store and answered.
RoomManager_get_available_rooms(dest, ci, co) ==
    /\ response = NoResponse
    /\ response' = [view |-> "search", destination |-> dest,
                    check_in |-> ci, check_out |-> co,
                    rooms |-> get_available_rooms(dest, ci, co)]
    /\ UNCHANGED <<today, is_active, bookings, history, nextId, inflight,
                   reviews, nextReviewId, images>>

\* The answer has been sent; the next request is served.
Respond ==
    /\ response # NoResponse
    /\ response' = NoResponse
    /\ UNCHANGED <<today, is_active, bookings, history, nextId, inflight,
                   reviews, nextReviewId, images>>

\* The stay every booking of SpecSearch is made for; the searches range over
\* all of Days around it.
StayIn == 1
StayOut == 2

\* Bookings of both rooms are made, cancelled, deleted and confirmed, rooms are
\* switched off and on, and searches are made, one request at a time.
NextSearch ==
    \/ \E u \in Users, r \in Rooms :
            response = NoResponse /\ BookingCreateView(u, r, StayIn, StayOut)
    \/ \E u \in Users, b \in BookingIds, m \in Methods :
            response = NoResponse /\ BookingDeleteView(u, b, m)
    \/ \E u \in Users, b \in BookingIds, m \in FormMethods :
            response = NoResponse /\ confirm_booking_view(u, b, m)
    \/ \E u \in Users, r \in Rooms :
            response = NoResponse /\ activate_rooms(u, r)
    \/ \E u \in Users, r \in Rooms :
            response = NoResponse /\ deactivate_rooms(u, r)
    \/ \E dest \in Destinations, ci \in Days, co \in Days :
            ci <= co /\ RoomManager_get_available_rooms(dest, ci, co)
    \/ Respond

SpecSearch == Init /\ [][NextSearch]_vars

\* ------------------------------------------------------------------ reviews
\* Of a Review row the model keeps booking, guest, room, rating, the
\* moderation fields and the owner's reply; review_text is free text that
\* no handler reads.
ReviewExists(i) == reviews[i] # NoReview

\* The unique indexes of Review.booking, Review.guest and Review.room (each a
\* OneToOneField): the rows an INSERT for booking b by guest u collides with.
IntegrityError(u, b) ==
    \E i \in ReviewIds :
        /\ ReviewExists(i)
        /\ \/ reviews[i].booking = b
           \/ reviews[i].guest = u
           \/ reviews[i].room = bookings[b].room

\* Mutant of ReviewCreateChecks: dispatch without guest=request.user and
\* without the owner check, and no unique index answering the INSERT.
ReviewCreateChecks_unchecked(u, b, rating) ==
    IF RoleRequiredMiddleware(u, "user_only") # "pass" THEN "access_denied"
    ELSE IF ~Exists(b) THEN "not_found"
    ELSE IF ~UserRequiredMixin(u) THEN "access_denied"
    ELSE IF rating \notin 1..5 THEN "invalid_rating"
    ELSE "ok"

\* Mutant of ReviewCreateChecks: no unique index on Review.booking, guest, room.
ReviewCreateChecks_noUnique(u, b, rating) ==
    IF RoleRequiredMiddleware(u, "user_only") # "pass" THEN "access_denied"
    ELSE IF ~(Exists(b) /\ bookings[b].guest = u) THEN "not_found"
    ELSE IF room_owner[bookings[b].room] = u THEN "self_review"
    ELSE IF ~UserRequiredMixin(u) THEN "access_denied"
    ELSE IF rating \notin 1..5 THEN "invalid_rating"
    ELSE "ok"

\* What a POST to ReviewCreateView answers: middleware, dispatch (booking
\* lookup with guest=request.user, owner check, UserRequiredMixin), the
\* rating validators of the form, and the INSERT ("already_reviewed" is the
\* IntegrityError caught in form_valid).
ReviewCreateChecks(u, b, rating) ==
    IF RoleRequiredMiddleware(u, "user_only") # "pass" THEN "access_denied"
    ELSE IF ~(Exists(b) /\ bookings[b].guest = u) THEN "not_found"
    ELSE IF room_owner[bookings[b].room] = u THEN "self_review"
    ELSE IF ~UserRequiredMixin(u) THEN "access_denied"
    ELSE IF rating \notin 1..5 THEN "invalid_rating"
    ELSE IF IntegrityError(u, b) THEN "already_reviewed"
    ELSE "ok"

\* A POST to ReviewCreateView. status takes the field default.
ReviewCreateView(u, b, rating) ==
    /\ nextReviewId <= MaxReviews
    /\ IF ReviewCreateChecks(u, b, rating) = "ok"
       THEN /\ reviews' = [reviews EXCEPT ![nextReviewId] =
                    [booking |-> b, room |-> bookings[b].room, guest |-> u,
                     rating |-> rating, status |-> REVIEW_PENDING,
                     moderated_by |-> NoUser, moderated_at |-> NoTime,
                     moderation_comment |-> "",
                     owner_reply |-> "", owner_reply_at |-> NoTime]]
            /\ nextReviewId' = nextReviewId + 1
       ELSE UNCHANGED <<reviews, nextReviewId>>
    /\ UNCHANGED <<today, is_active, bookings, history, nextId, inflight,
                   response, images>>

\* Mutant of ReviewUpdateView: an edited review goes back to moderation.
ReviewUpdateView_resetStatus(u, i, rating) ==
    /\ IF /\ RoleRequiredMiddleware(u, "user_only") = "pass"
          /\ UserRequiredMixin(u)
          /\ ReviewExists(i)
          /\ reviews[i].guest = u
          /\ rating \in 1..5
       THEN reviews' = [reviews EXCEPT ![i].rating = rating,
                                       ![i].status = REVIEW_PENDING]
       ELSE UNCHANGED reviews
    /\ UNCHANGED <<today, is_active, bookings, history, nextId, inflight,
                   nextReviewId, response, images>>

\* A POST to ReviewUpdateView: the author's review with the new rating.
ReviewUpdateView(u, i, rating) ==
    /\ IF /\ RoleRequiredMiddleware(u, "user_only") = "pass"
          /\ UserRequiredMixin(u)
          /\ ReviewExists(i)
          /\ reviews[i].guest = u
          /\ rating \in 1..5
       THEN reviews' = [reviews EXCEPT ![i].rating = rating]
       ELSE UNCHANGED reviews
    /\ UNCHANGED <<today, is_active, bookings, history, nextId, inflight,
                   nextReviewId, response, images>>

\* ReviewDeleteView: POST (DeleteView.post -> form_valid) and DELETE (the
\* overridden delete -> super().delete) both remove the author's review.
ReviewDeleteView(u, i, method) ==
    /\ IF /\ RoleRequiredMiddleware(u, "user_only") = "pass"
          /\ UserRequiredMixin(u)
          /\ ReviewExists(i)
          /\ reviews[i].guest = u
          /\ method \in {"POST", "DELETE"}
       THEN reviews' = [reviews EXCEPT ![i] = NoReview]
       ELSE UNCHANGED reviews
    /\ UNCHANGED <<today, is_active, bookings, history, nextId, inflight,
                   nextReviewId, response, images>>

\* StaffRequiredMixin.test_func for an authenticated user
StaffRequiredMixin(u) == is_staff(u)

\* A POST to ReviewModerateView with ReviewModerationForm: status is any of
\* the choices of Review.status, moderation_comment any text or none.
ReviewModerateView(u, i, method, status, comment) ==
    /\ IF /\ StaffRequiredMixin(u)
          /\ ReviewExists(i)
          /\ method = "POST"
          /\ status \in ReviewStatus
       THEN reviews' = [reviews EXCEPT ![i].status = status,
                                       ![i].moderation_comment = comment,
                                       ![i].moderated_by = u,
                                       ![i].moderated_at = today]
       ELSE UNCHANGED reviews
    /\ UNCHANGED <<today, is_active, bookings, history, nextId, inflight,
                   nextReviewId, response, images>>

\* ReviewQuickModerateView.get with the action of the URL.
ReviewQuickModerateView(u, i, action) ==
    /\ IF StaffRequiredMixin(u) /\ ReviewExists(i)
            /\ action \in {"approve", "reject"}
       THEN reviews' = [reviews EXCEPT
                ![i].status = IF action = "approve" THEN APPROVED ELSE REJECTED,
                ![i].moderated_by = u,
                ![i].moderated_at = today]
       ELSE UNCHANGED reviews
    /\ UNCHANGED <<today, is_active, bookings, history, nextId, inflight,
                   nextReviewId, response, images>>

\* ReviewAdmin.approve_reviews / reject_reviews on a queryset of one review:
\* queryset.update(status=..., moderated_by=request.user).
approve_reviews(u, i) ==
    /\ is_staff(u)
    /\ ReviewExists(i)
    /\ reviews' = [reviews EXCEPT ![i].status = APPROVED,
                                  ![i].moderated_by = u]
    /\ UNCHANGED <<today, is_active, bookings, history, nextId, inflight,
                   nextReviewId, response, images>>

reject_reviews(u, i) ==
    /\ is_staff(u)
    /\ ReviewExists(i)
    /\ reviews' = [reviews EXCEPT ![i].status = REJECTED,
                                  ![i].moderated_by = u]
    /\ UNCHANGED <<today, is_active, bookings, history, nextId, inflight,
                   nextReviewId, response, images>>

\* Mutant of ReviewListView_get_queryset: the anonymous branch without its
\* status filter.
ReviewListView_get_queryset_all(viewer, room_id) ==
    IF room_id # NoRoom
    THEN {i \in ReviewIds : ReviewExists(i) /\ reviews[i].room = room_id
                                /\ reviews[i].status = APPROVED}
    ELSE IF viewer # Anonymous /\ is_owner(viewer)
    THEN {i \in ReviewIds : ReviewExists(i)
                                /\ room_owner[reviews[i].room] = viewer}
    ELSE IF viewer # Anonymous
    THEN {i \in ReviewIds : ReviewExists(i) /\ reviews[i].guest = viewer}
    ELSE {i \in ReviewIds : ReviewExists(i)}

\* ReviewListView.get_queryset as the set of rows listed; room_id is the
\* ?room= parameter, NoRoom when the request has none.
ReviewListView_get_queryset(viewer, room_id) ==
    IF room_id # NoRoom
    THEN {i \in ReviewIds : ReviewExists(i) /\ reviews[i].room = room_id
                                /\ reviews[i].status = APPROVED}
    ELSE IF viewer # Anonymous /\ is_owner(viewer)
    THEN {i \in ReviewIds : ReviewExists(i)
                                /\ room_owner[reviews[i].room] = viewer}
    ELSE IF viewer # Anonymous
    THEN {i \in ReviewIds : ReviewExists(i) /\ reviews[i].guest = viewer}
    ELSE {i \in ReviewIds : ReviewExists(i) /\ reviews[i].status = APPROVED}

\* GET /reviews/ (a public URL of the middleware).
ReviewListView(viewer, room_id) ==
    /\ response = NoResponse
    /\ response' = [view |-> "reviews", viewer |-> viewer, room |-> room_id,
                    reviews |-> ReviewListView_get_queryset(viewer, room_id)]
    /\ UNCHANGED <<today, is_active, bookings, history, nextId, inflight,
                   reviews, nextReviewId, images>>

\* GET /room/r/ (public): the reviews of RoomDetailView.get_context_data.
RoomDetailView(viewer, r) ==
    /\ response = NoResponse
    /\ response' = [view |-> "room_detail", viewer |-> viewer, room |-> r,
                    reviews |-> {i \in ReviewIds :
                        /\ ReviewExists(i)
                        /\ reviews[i].room = r
                        /\ reviews[i].status = APPROVED}]
    /\ UNCHANGED <<today, is_active, bookings, history, nextId, inflight,
                   reviews, nextReviewId, images>>

\* Bookings of both rooms are made and deleted; reviews are written, edited,
\* deleted, moderated and listed, one request at a time.
NextReview ==
    \/ \E u \in Users, r \in Rooms :
            response = NoResponse /\ BookingCreateView(u, r, StayIn, StayOut)
    \/ \E u \in Users, b \in BookingIds, m \in Methods :
            response = NoResponse /\ BookingDeleteView(u, b, m)
    \/ \E u \in Users, b \in BookingIds, rating \in Ratings :
            response = NoResponse /\ ReviewCreateView(u, b, rating)
    \/ \E u \in Users, i \in ReviewIds, rating \in Ratings :
            response = NoResponse /\ ReviewUpdateView(u, i, rating)
    \/ \E u \in Users, i \in ReviewIds, m \in Methods :
            response = NoResponse /\ ReviewDeleteView(u, i, m)
    \/ \E u \in Users, i \in ReviewIds, m \in FormMethods, st \in ReviewStatus :
            response = NoResponse /\ ReviewModerateView(u, i, m, st, "")
    \/ \E u \in Users, i \in ReviewIds, a \in {"approve", "reject", "other"} :
            response = NoResponse /\ ReviewQuickModerateView(u, i, a)
    \/ \E u \in Users, i \in ReviewIds :
            response = NoResponse /\ approve_reviews(u, i)
    \/ \E u \in Users, i \in ReviewIds :
            response = NoResponse /\ reject_reviews(u, i)
    \/ \E v \in Viewers, r \in Rooms \cup {NoRoom} : ReviewListView(v, r)
    \/ \E v \in Viewers, r \in Rooms : RoomDetailView(v, r)
    \/ Respond

SpecReview == Init /\ [][NextReview]_vars

\* ---------------------------------------------------------- ReviewReplyView
\* Mutant of ReviewReplyView_get_queryset: no filter on the room's owner.
ReviewReplyView_get_queryset_all(u) == {i \in ReviewIds : ReviewExists(i)}

\* ReviewReplyView.get_queryset: the reviews of the rooms of request.user.
ReviewReplyView_get_queryset(u) ==
    {i \in ReviewIds : ReviewExists(i) /\ room_owner[reviews[i].room] = u}

\* A POST to ReviewReplyView (a login-required URL of the middleware, and
\* LoginRequiredMixin) with ReviewReplyForm: owner_reply is saved and
\* owner_reply_at is set to now, whatever the review held before.
ReviewReplyView(u, i, method, text) ==
    /\ IF /\ RoleRequiredMiddleware(u, "login") = "pass"
          /\ i \in ReviewReplyView_get_queryset(u)
          /\ method = "POST"
       THEN reviews' = [reviews EXCEPT ![i].owner_reply = text,
                                       ![i].owner_reply_at = today]
       ELSE UNCHANGED reviews
    /\ UNCHANGED <<today, is_active, bookings, history, nextId, inflight,
                   nextReviewId, response, images>>

\* Bookings of both rooms are made for the stay and the days go by; reviews
\* are written, edited, moderated and replied to, one request at a time.
NextReply ==
    \/ \E u \in Users, r \in Rooms : BookingCreateView(u, r, StayIn, StayOut)
    \/ \E u \in Users, b \in BookingIds, rating \in Ratings :
            ReviewCreateView(u, b, rating)
    \/ \E u \in Users, i \in ReviewIds, rating \in Ratings :
            ReviewUpdateView(u, i, rating)
    \/ \E u \in Users, i \in ReviewIds, a \in {"approve", "reject"} :
            ReviewQuickModerateView(u, i, a)
    \/ \E u \in Users, i \in ReviewIds, m \in FormMethods,
          st \in ReviewStatus, comment \in Comments :
            ReviewModerateView(u, i, m, st, comment)
    \/ \E u \in Users, i \in ReviewIds, m \in FormMethods, text \in ReplyTexts :
            ReviewReplyView(u, i, m, text)
    \/ Tick

SpecReply == Init /\ [][NextReply]_vars

\* ------------------------------------------------------------ room images
\* Room.room_photo (the primary photo, at most one) and the RoomImage rows
\* of a room (its gallery).  An upload is described by whether the request
\* carries a room_photo file and by the number of files under
\* 'gallery_images'.

RoomRowExists(k) == images[k] # NoRoomRow

Min(a, b) == IF a <= b THEN a ELSE b

Max(a, b) == IF a >= b THEN a ELSE b

\* the number of images of a Room row: room_photo (0 or 1) + RoomImage rows
image_count(row) == (IF row.room_photo THEN 1 ELSE 0) + row.gallery

\* RoomCreateView._save_gallery_images: the slots left beside the new
\* room's primary photo; gallery_files[:slots_available] are stored.
RoomCreateView_slots_available(has_main) ==
    MAX_GALLERY_PHOTOS - (IF has_main THEN 1 ELSE 0)

\* update_room_view: the room is saved first (a new room_photo replaces or
\* sets the primary photo, none keeps it), then the slots are computed from
\* the stored gallery and the saved primary photo.
update_room_view_slots_available(existing_count, has_main) ==
    Max(0, MAX_GALLERY_PHOTOS - (existing_count + (IF has_main THEN 1 ELSE 0)))

\* POST /room/create/ by user u with or without a room_photo and with n
\* gallery files.
RoomCreateView(u, photo, n) ==
    /\ \E k \in NewRoomIds :
        /\ ~RoomRowExists(k)
        /\ \A j \in NewRoomIds : j < k => RoomRowExists(j)
        /\ IF /\ RoleRequiredMiddleware(u, "user_only") = "pass"
              /\ UserRequiredMixin(u)
           THEN images' = [images EXCEPT ![k] =
                    [room_owner |-> u,
                     room_photo |-> photo,
                     gallery    |-> Min(n, RoomCreateView_slots_available(photo))]]
           ELSE UNCHANGED images
    /\ UNCHANGED <<today, is_active, bookings, history, nextId, inflight,
                   reviews, nextReviewId, response>>

\* /room/<k>/update/ by user u: a 404 unless u owns the room; a POST saves
\* the form and then stores as many gallery files as there are slots.
update_room_view(u, k, method, photo, n) ==
    /\ IF /\ RoleRequiredMiddleware(u, "user_only") = "pass"
          /\ RoomRowExists(k)
          /\ images[k].room_owner = u
          /\ method = "POST"
       THEN LET has_main == images[k].room_photo \/ photo
                existing_count == images[k].gallery
            IN  images' = [images EXCEPT ![k] =
                    [room_owner |-> u,
                     room_photo |-> has_main,
                     gallery    |-> existing_count +
                         Min(n, update_room_view_slots_available(existing_count, has_main))]]
       ELSE UNCHANGED images
    /\ UNCHANGED <<today, is_active, bookings, history, nextId, inflight,
                   reviews, nextReviewId, response>>

NextRoom ==
    \/ \E u \in Users, photo \in BOOLEAN, n \in 0..MaxFiles :
           RoomCreateView(u, photo, n)
    \/ \E u \in Users, k \in RoomKeys, m \in FormMethods,
          photo \in BOOLEAN, n \in 0..MaxFiles :
           update_room_view(u, k, m, photo, n)

SpecRoom == Init /\ [][NextRoom]_vars

\* ------------------------------------------------- search beside booking
\* AvailabilitySearchForm.clean: SearchResultsView calls get_available_rooms
\* only with dates the form accepted.
AvailabilitySearchForm(ci, co) == ~(ci < today) /\ ~(ci >= co)

\* Bookings of both rooms for any dates, beside searches the form accepted for
\* a room's own address; one request at a time, a search answered before the
\* next.
NextAvail ==
    \/ \E u \in Users, r \in Rooms, ci \in Days, co \in Days :
            response = NoResponse /\ BookingCreateView(u, r, ci, co)
    \/ \E u \in Users, b \in BookingIds, m \in Methods :
            response = NoResponse /\ BookingDeleteView(u, b, m)
    \/ \E u \in Users, b \in BookingIds, m \in FormMethods :
            response = NoResponse /\ confirm_booking_view(u, b, m)
    \/ \E u \in Users, r \in Rooms :
            response = NoResponse /\ activate_rooms(u, r)
    \/ \E u \in Users, r \in Rooms :
            response = NoResponse /\ deactivate_rooms(u, r)
    \/ \E r \in Rooms, ci \in Days, co \in Days :
            /\ AvailabilitySearchForm(ci, co)
            /\ RoomManager_get_available_rooms(address[r], ci, co)
    \/ Respond
    \/ response = NoResponse /\ Tick

SpecAvail == Init /\ [][NextAvail]_vars

\* ------------------------------------------------ reviews of several guests
\* Bookings and reviews with a guest who can book either room, so that a
\* guest has bookings of two rooms and a room has bookings of two guests.
NextUnique ==
    \/ \E u \in Accounts, r \in Rooms : BookingCreateView(u, r, StayIn, StayOut)
    \/ \E u \in Accounts, b \in BookingIds, m \in Methods : BookingDeleteView(u, b, m)
    \/ \E u \in Accounts, b \in BookingIds, rating \in Ratings :
            ReviewCreateView(u, b, rating)
    \/ \E u \in Accounts, i \in ReviewIds, m \in Methods : ReviewDeleteView(u, i, m)

SpecUnique == Init /\ [][NextUnique]_vars

\* ------------------------------------------------- RoleRequiredMiddleware
\* request.path as the sequence of its segments, each followed by "/":
\* "/" is <<>>, "/room/1/update/" is <<"room", "1", "update">>.  A pattern is
\* the sequence of the segments of its regular expression ("\\d+" stands for
\* a segment of digits) and whether it ends in "$"; re.match anchors every
\* pattern at the start of the path.
Digits == {"1"}

Segments == {"admin", "moderation", "room", "profile", "update"} \cup Digits

Paths == UNION {[1..k -> Segments] : k \in 0..MaxPath}

Prefix(segs) == [segs |-> segs, end |-> FALSE]

Exact(segs) == [segs |-> segs, end |-> TRUE]

PUBLIC_URLS ==
    { Exact(<<>>), Prefix(<<"search">>), Prefix(<<"signup">>),
      Prefix(<<"login">>), Exact(<<"room", "\\d+">>), Exact(<<"reviews">>),
      Prefix(<<"admin">>), Prefix(<<"media">>), Prefix(<<"static">>) }

ADMIN_REQUIRED_URLS == { Prefix(<<"admin">>) }

STAFF_REQUIRED_URLS == { Prefix(<<"moderation">>) }

USER_ONLY_URLS ==
    { Prefix(<<"room", "create">>),
      Prefix(<<"room", "\\d+", "update">>),
      Prefix(<<"room", "\\d+", "delete">>),
      Prefix(<<"booking", "room", "\\d+", "create">>),
      Prefix(<<"booking", "\\d+", "update">>),
      Prefix(<<"booking", "\\d+", "delete">>),
      Prefix(<<"booking", "\\d+", "review", "create">>),
      Prefix(<<"review", "\\d+", "update">>),
      Prefix(<<"review", "\\d+", "delete">>) }

LOGIN_REQUIRED_URLS ==
    { Prefix(<<"profile">>), Prefix(<<"logout">>), Prefix(<<"edit_profile">>),
      Prefix(<<"booking", "history">>),
      Prefix(<<"booking", "\\d+", "confirm">>),
      Prefix(<<"review", "\\d+", "reply">>),
      Prefix(<<"my-rooms", "bookings">>) }

\* pattern.match(path)
pattern_match(pattern, path) ==
    /\ Len(path) >= Len(pattern.segs)
    /\ \A k \in 1..Len(pattern.segs) :
            IF pattern.segs[k] = "\\d+"
            THEN path[k] \in Digits
            ELSE path[k] = pattern.segs[k]
    /\ pattern.end => Len(path) = Len(pattern.segs)

\* RoleRequiredMiddleware._matches_any
matches_any(path, patterns) == \E pattern \in patterns : pattern_match(pattern, path)

\* RoleRequiredMiddleware.__call__ for viewer v (Anonymous: not
\* authenticated): "pass" hands the request to the view, "redirect_login"
\* and "access_denied" (the 403 page) answer it in the middleware.
RoleRequiredMiddleware_call(v, path) ==
    IF matches_any(path, PUBLIC_URLS) THEN "pass"
    ELSE IF v = Anonymous
    THEN IF \/ matches_any(path, LOGIN_REQUIRED_URLS)
            \/ matches_any(path, ADMIN_REQUIRED_URLS)
            \/ matches_any(path, STAFF_REQUIRED_URLS)
            \/ matches_any(path, USER_ONLY_URLS)
         THEN "redirect_login"
         ELSE "pass"
    ELSE IF matches_any(path, ADMIN_REQUIRED_URLS) /\ ~is_admin(v)
    THEN "access_denied"
    ELSE IF matches_any(path, STAFF_REQUIRED_URLS) /\ ~is_staff(v)
    THEN "access_denied"
    ELSE IF /\ matches_any(path, USER_ONLY_URLS)
            /\ (is_admin(v) \/ is_staff(v) \/ is_superuser[v])
    THEN "access_denied"
    ELSE "pass"

\* A request of viewer v for path goes through the middleware.
Request(v, path) ==
    /\ response = NoResponse
    /\ response' = [view |-> "middleware", user |-> v, path |-> path,
                    answer |-> RoleRequiredMiddleware_call(v, path)]
    /\ UNCHANGED <<today, is_active, bookings, history, nextId, inflight,
                   reviews, nextReviewId, images>>

NextMiddleware ==
    \/ \E v \in Viewers, path \in Paths : Request(v, path)
    \/ Respond

SpecMiddleware == Init /\ [][NextMiddleware]_vars

\* ================================================================== claims
\* The overlap test of the specification, on two stored bookings.
Overlap(b1, b2) ==
    /\ bookings[b1].check_in_date <= bookings[b2].check_out_date
    /\ bookings[b1].check_out_date >= bookings[b2].check_in_date

\* C1: no two distinct Pending/Confirmed bookings of the same room have
\* overlapping date ranges, in any state reachable by create, update, confirm
\* and cancel requests served one at a time.
C1_NoOverlap ==
    \A b1 \in BookingIds, b2 \in BookingIds :
        (b1 # b2 /\ Active(b1) /\ Active(b2)
            /\ bookings[b1].room = bookings[b2].room) => ~Overlap(b1, b2)

\* C2: once a booking's status is Cancelled, no step changes that booking's
\* status to anything else.
C2_CancelledIsFinal ==
    [][\A b \in BookingIds :
        (Exists(b) /\ bookings[b].status = CANCELLED /\ bookings'[b] # NoBooking)
            => bookings'[b].status = CANCELLED]_vars

\* C3: when the check and save steps of concurrent create/update requests
\* interleave, at most one of two requests for overlapping ranges of the same
\* room commits: every Pending/Confirmed booking overlaps no Pending/Confirmed
\* booking of its room but itself.
C3_AtMostOneCommits ==
    \A b \in BookingIds :
        Active(b) =>
            Cardinality({c \in BookingIds :
                /\ Active(c)
                /\ bookings[c].room = bookings[b].room
                /\ Overlap(c, b)}) = 1

\* The four rejection conditions the specification lists for createBooking.
RoomUnavailable(r) == r \notin Rooms \/ ~is_active[r]

DatesInvalid(ci, co) == ci >= co \/ ci < today

SelfBooking(u, r) == r \in Rooms /\ room_owner[r] = u

RangeTaken(r, ci, co) ==
    \E b \in BookingIds :
        /\ Active(b)
        /\ bookings[b].room = r
        /\ ci <= bookings[b].check_out_date
        /\ co >= bookings[b].check_in_date

\* A create request stores a booking exactly when the handler can take a step
\* that changes the store.
Creates(u, r, ci, co) == ENABLED <<BookingCreateView(u, r, ci, co)>>_vars

\* C4 as stated: createBooking is rejected iff the room is inactive or missing,
\* the dates are invalid, the guest owns the room, or the range is taken.
C4_RejectedIffFourConditions ==
    nextId <= MaxBookings =>
        \A u \in Users, r \in RoomIds, ci \in Days, co \in Days :
            ~Creates(u, r, ci, co) <=>
                (\/ RoomUnavailable(r)
                 \/ DatesInvalid(ci, co)
                 \/ SelfBooking(u, r)
                 \/ RangeTaken(r, ci, co))

\* C4 amended: createBooking is rejected iff one of the four conditions holds
\* or the guest has staff or admin capability; otherwise a booking is created.
C4_RejectedIffFiveConditions ==
    nextId <= MaxBookings =>
        \A u \in Users, r \in RoomIds, ci \in Days, co \in Days :
            ~Creates(u, r, ci, co) <=>
                (\/ role[u] \in {"staff", "admin"} \/ is_superuser[u]
                 \/ RoomUnavailable(r)
                 \/ DatesInvalid(ci, co)
                 \/ SelfBooking(u, r)
                 \/ RangeTaken(r, ci, co))

\* Two bookings stand as created side by side and a third request is decided
\* against them.
C4_Witness ==
    /\ nextId = MaxBookings
    /\ Active(1)
    /\ history[1].change_description = "created"
    /\ \E ci \in Days, co \in Days :
        /\ Creates("u2", 1, ci, co)
        /\ ~Creates("u2", 1, co, MaxDay)

\* No stored booking has the owner of its room as guest.
NoSelfBooking ==
    \A b \in BookingIds :
        Exists(b) => bookings[b].guest # room_owner[bookings[b].room]

C6_CreateStoresPendingWithCost ==
    \A u \in Users, r \in Rooms, ci \in Days, co \in Days :
        ~ENABLED (/\ BookingCreateView(u, r, ci, co)
                  /\ vars' # vars
                  /\ bookings'[nextId] #
                        [guest |-> u, room |-> r, check_in_date |-> ci,
                         check_out_date |-> co, status |-> "Pending",
                         total_cost |-> price_per_night[r] * (co - ci)])

\* A booking as created: 3 nights at 1000 a night, Pending, costing 3000.
C6_Witness ==
    \E b \in BookingIds :
        /\ Exists(b)
        /\ history[b].change_description = "created"
        /\ price_per_night[bookings[b].room] = 1000
        /\ bookings[b].check_out_date - bookings[b].check_in_date = 3
        /\ bookings[b].status = "Pending"
        /\ bookings[b].total_cost = 3000

\* Some other Pending/Confirmed booking of b's room overlaps [ci, co].
TakenByOther(b, ci, co) ==
    \E c \in BookingIds :
        /\ c # b
        /\ Active(c)
        /\ bookings[c].room = bookings[b].room
        /\ ci <= bookings[c].check_out_date
        /\ co >= bookings[c].check_in_date

\* C7: an update request changes the store only if it is a POST by the
\* booking's guest with check_in < check_out, check_in not in the past and no
\* conflict with another Pending/Confirmed booking (otherwise dates, cost,
\* status and history all stay as they were); and when it changes the store,
\* the booking holds the new dates and total_cost = price_per_night * nights.
C7_UpdateAllOrNothing ==
    \A u \in Users, b \in BookingIds, m \in FormMethods, ci \in Days, co \in Days :
        /\ ENABLED <<update_booking_view(u, b, m, ci, co)>>_vars =>
                /\ Exists(b)
                /\ m = "POST"
                /\ ci < co
                /\ ci >= today
                /\ ~TakenByOther(b, ci, co)
        /\ ~ENABLED (/\ update_booking_view(u, b, m, ci, co)
                     /\ vars' # vars
                     /\ ~(/\ bookings'[b].check_in_date = ci
                          /\ bookings'[b].check_out_date = co
                          /\ bookings'[b].total_cost =
                                price_per_night[bookings[b].room] * (co - ci)))

\* A booking whose dates were changed stands beside another active booking:
\* one new range is still free for it and another is refused as a conflict.
C7_Witness ==
    \E b \in BookingIds, c \in BookingIds :
        /\ b # c
        /\ Active(b)
        /\ Active(c)
        /\ history[b].change_description = "dates_changed"
        /\ \E ci \in Days, co \in Days :
                ENABLED <<update_booking_view(bookings[b].guest, b, "POST", ci, co)>>_vars
        /\ \E ci \in Days, co \in Days :
                /\ ci < co
                /\ ci >= today
                /\ TakenByOther(b, ci, co)

\* C8: a confirm request changes the store only when the actor is the
\* booking's guest or the owner of the booked room.
C8_ConfirmOnlyGuestOrOwner ==
    \A u \in Users, b \in BookingIds, m \in FormMethods :
        ENABLED <<confirm_booking_view(u, b, m)>>_vars =>
            /\ Exists(b)
            /\ (u = bookings[b].guest \/ u = room_owner[bookings[b].room])

\* A booking confirmed by the room's owner; a third user, neither guest nor
\* owner, is logged in and may send the same request.
C8_Witness ==
    \E b \in BookingIds :
        /\ Exists(b)
        /\ bookings[b].status = "Confirmed"
        /\ history[b].changed_by = room_owner[bookings[b].room]
        /\ \E u \in Users : u # bookings[b].guest /\ u # room_owner[bookings[b].room]

\* C9: a delete/cancel request and an update request change the store only
\* when the actor is the booking's guest.
C9_CancelUpdateOnlyGuest ==
    \A u \in Users, b \in BookingIds :
        /\ \A m \in Methods :
            ENABLED <<BookingDeleteView(u, b, m)>>_vars =>
                (Exists(b) /\ u = bookings[b].guest)
        /\ \A m \in FormMethods, ci \in Days, co \in Days :
            ENABLED <<update_booking_view(u, b, m, ci, co)>>_vars =>
                (Exists(b) /\ u = bookings[b].guest)

\* One booking cancelled by its guest and another whose dates its guest
\* changed, on a room owned by someone else.
C9_Witness ==
    \E b \in BookingIds, c \in BookingIds :
        /\ Exists(b)
        /\ Exists(c)
        /\ history[b].change_description = "cancelled"
        /\ history[b].changed_by = bookings[b].guest
        /\ history[c].change_description = "dates_changed"
        /\ room_owner[bookings[b].room] # bookings[b].guest

\* C10: a delete/cancel request by the guest never removes the booking: after
\* it the booking exists with status Cancelled and its history row has
\* old_status = the status before and new_status = Cancelled.
C10_DeleteKeepsRecord ==
    [][\A u \in Users, b \in BookingIds :
        (/\ Exists(b)
         /\ bookings[b].guest = u
         /\ \E m \in {"POST", "DELETE"} : BookingDeleteView(u, b, m))
            => /\ bookings'[b] # NoBooking
               /\ bookings'[b].status = "Cancelled"
               /\ history'[b].old_status = bookings[b].status
               /\ history'[b].new_status = "Cancelled"]_vars

\* C11: every existing booking has its BookingHistory record in every state
\* in which no request is halfway through, a create request that failed
\* between saving the booking and writing the history record included.
C11_EveryBookingHasHistory ==
    inflight = {} =>
        \A b \in BookingIds : Exists(b) => history[b] # NoHistory

\* Booking b is as one confirm of a Pending booking leaves it.
ConfirmedOnce(b) ==
    /\ Exists(b)
    /\ bookings[b].status = CONFIRMED
    /\ history[b] # NoHistory
    /\ history[b].old_status = PENDING
    /\ history[b].new_status = CONFIRMED
    /\ history[b].change_description = "confirmed"

\* What every confirm must leave behind for b: status Confirmed and the one
\* history row of b (BookingHistory.booking is one-to-one) saying Confirmed.
ConfirmedWithHistory(b) ==
    /\ bookings[b].status = CONFIRMED
    /\ history[b] # NoHistory
    /\ history[b].new_status = CONFIRMED

\* C12: confirming a Pending booking, and confirming it again straight after
\* (by its guest or the room's owner), both end with status Confirmed and
\* the booking's single history record: no confirm POST on a booking that is
\* Pending or was just confirmed can end otherwise.
C12_ConfirmTwiceAsOnce ==
    \A b \in BookingIds, u \in Users :
        (Exists(b) /\ may_confirm(u, b)
            /\ (bookings[b].status = PENDING \/ ConfirmedOnce(b)))
        => /\ ENABLED <<confirm_booking_view(u, b, "POST")>>_vars
           /\ ~ENABLED (confirm_booking_view(u, b, "POST")
                            /\ ~ConfirmedWithHistory(b)')

\* A booking confirmed a second time: only a confirm of a Confirmed booking
\* writes old_status = Confirmed.
C12_Witness ==
    \E b \in BookingIds :
        /\ ConfirmedWithHistory(b)
        /\ history[b].old_status = CONFIRMED
        /\ history[b].change_description = "confirmed"

\* C13: straight after an update request has been accepted and saved for
\* booking b with the range [ci, co], no other Pending/Confirmed booking of
\* b's room overlaps [ci, co]: the conflict check excluding b finds nothing.
C13_NoConflictAfterUpdate ==
    \A u \in Users, b \in BookingIds, ci \in Days, co \in Days :
        UpdateChecks(u, b, ci, co) = "ok" =>
            /\ ENABLED (/\ update_booking_view(u, b, "POST", ci, co)
                        /\ bookings'[b].check_in_date = ci
                        /\ bookings'[b].check_out_date = co)
            /\ ~ENABLED (/\ update_booking_view(u, b, "POST", ci, co)
                         /\ TakenByOther(b, ci, co)')

\* A booking moved to new dates while another Pending/Confirmed booking of
\* the same room exists, and clear of it.
C13_Witness ==
    \E b \in BookingIds, c \in BookingIds :
        /\ b # c
        /\ Active(b)
        /\ Active(c)
        /\ bookings[b].room = bookings[c].room
        /\ history[b].change_description = "dates_changed"
        /\ ~TakenByOther(b, bookings[b].check_in_date, bookings[b].check_out_date)

\* The destination without its leading and trailing whitespace: the stretch
\* from its first to its last character that is not whitespace.
Trimmed(d) ==
    LET idx == {i \in 1..Len(d) : d[i] # " "} IN
        IF idx = {} THEN <<>>
        ELSE SubSeq(d, CHOOSE i \in idx : \A j \in idx : i <= j,
                       CHOOSE i \in idx : \A j \in idx : i >= j)

Upper(c) == IF c = "a" THEN "A" ELSE c

SameIgnoringCase(x, y) ==
    [i \in 1..Len(x) |-> Upper(x[i])] = [i \in 1..Len(y) |-> Upper(y[i])]

\* Some Pending or Confirmed booking of room r overlaps [ci, co].
BookedIn(r, ci, co) ==
    \E b \in BookingIds :
        /\ Exists(b)
        /\ bookings[b].room = r
        /\ bookings[b].status # CANCELLED
        /\ bookings[b].check_in_date <= co
        /\ ci <= bookings[b].check_out_date

\* C14: a search answers with exactly the active rooms whose address equals
\* the trimmed destination ignoring case and that no Pending or Confirmed
\* booking overlapping [check_in, check_out] holds (a Cancelled booking
\* excludes nothing); an empty or whitespace-only destination gets no room.
C14_SearchReturnsExactly ==
    response.view = "search" =>
        response.rooms =
            IF Trimmed(response.destination) = <<>> THEN {}
            ELSE {r \in Rooms :
                    /\ is_active[r]
                    /\ SameIgnoringCase(address[r], Trimmed(response.destination))
                    /\ ~BookedIn(r, response.check_in, response.check_out)}

\* A search for " a " finds room 1 (address "A") although a Cancelled booking
\* of room 1 overlaps the dates asked for, and the same dates are refused for
\* room 3, which a Pending or Confirmed booking holds.
C14_Witness ==
    /\ response.view = "search"
    /\ response.destination = <<" ", "a", " ">>
    /\ response.rooms = {1}
    /\ \E b \in BookingIds :
            /\ Exists(b)
            /\ bookings[b].room = 1
            /\ bookings[b].status = CANCELLED
            /\ bookings[b].check_in_date <= response.check_out
            /\ response.check_in <= bookings[b].check_out_date
    /\ BookedIn(3, response.check_in, response.check_out)
    /\ get_available_rooms(<<"A", "a">>, response.check_in, response.check_out) = {}

\* C15: no two reviews are of the same booking; and once a booking has a
\* review, a further valid create request by its guest is answered with the
\* 'already reviewed' error and no create request for that booking changes
\* the store (no second row, the existing review as it was).
C15_OneReviewPerBooking ==
    /\ \A i \in ReviewIds, j \in ReviewIds :
            (i # j /\ ReviewExists(i) /\ ReviewExists(j))
                => reviews[i].booking # reviews[j].booking
    /\ \A i \in ReviewIds :
            (ReviewExists(i) /\ nextReviewId <= MaxReviews) =>
                /\ \A rating \in 1..5 :
                        ReviewCreateChecks(reviews[i].guest, reviews[i].booking,
                                           rating) = "already_reviewed"
                /\ \A u \in Users, rating \in Ratings :
                        ~ENABLED <<ReviewCreateView(u, reviews[i].booking, rating)>>_vars

\* A booking has its review and a row could still be added.
C15_Witness ==
    \E i \in ReviewIds :
        /\ ReviewExists(i)
        /\ Exists(reviews[i].booking)
        /\ nextReviewId <= MaxReviews

\* C16: every review is of an existing booking, its guest is that booking's
\* guest, its room is that booking's room and its guest does not own that
\* room; and a create request stores a review only for the booking's guest
\* who is not the owner of the booked room.
C16_ReviewMatchesBooking ==
    /\ \A i \in ReviewIds :
            ReviewExists(i) =>
                /\ Exists(reviews[i].booking)
                /\ reviews[i].guest = bookings[reviews[i].booking].guest
                /\ reviews[i].room = bookings[reviews[i].booking].room
                /\ reviews[i].guest # room_owner[reviews[i].room]
    /\ \A u \in Users, b \in BookingIds, rating \in Ratings :
            ENABLED <<ReviewCreateView(u, b, rating)>>_vars =>
                /\ Exists(b)
                /\ bookings[b].guest = u
                /\ room_owner[bookings[b].room] # u

\* A review exists, and a booking without review whose guest may review it
\* while the owner of its room, asking for the same, stores nothing.
C16_Witness ==
    /\ \E i \in ReviewIds : ReviewExists(i)
    /\ \E b \in BookingIds :
            /\ Exists(b)
            /\ ENABLED <<ReviewCreateView(bookings[b].guest, b, 5)>>_vars
            /\ ~ENABLED <<ReviewCreateView(room_owner[bookings[b].room], b, 5)>>_vars

\* C17: a review that is approved or rejected is never pending again: no step
\* takes a review from approved or rejected to pending.
C17_NeverBackToPending ==
    [][\A i \in ReviewIds :
        (ReviewExists(i) /\ reviews[i].status \in {APPROVED, REJECTED}
            /\ reviews'[i] # NoReview)
        => reviews'[i].status # REVIEW_PENDING]_vars

\* C18: every approved or rejected review has both moderated_by and
\* moderated_at set.
C18_ModeratedHasModeratorAndTime ==
    \A i \in ReviewIds :
        (ReviewExists(i) /\ reviews[i].status \in {APPROVED, REJECTED})
            => /\ reviews[i].moderated_by # NoUser
               /\ reviews[i].moderated_at # NoTime

\* C19: the review list, asked for by a logged-in user without a room
\* filter, holds every review that user wrote, whatever its status.
C19_AuthorSeesOwnReviews ==
    (response.view = "reviews" /\ response.room = NoRoom
        /\ response.viewer # Anonymous)
    => \A i \in ReviewIds :
            (ReviewExists(i) /\ reviews[i].guest = response.viewer)
                => i \in response.reviews

\* C20: the review list and the room detail page show a review that is not
\* approved only to its author or to the owner of the reviewed room; anyone
\* else, logged in or not, gets approved reviews only.
C20_UnapprovedHidden ==
    response.view \in {"reviews", "room_detail"} =>
        \A i \in response.reviews :
            /\ ReviewExists(i)
            /\ reviews[i].status # APPROVED =>
                    \/ response.viewer = reviews[i].guest
                    \/ response.viewer = room_owner[reviews[i].room]

\* The list answered to a visitor without a session holds the approved review
\* and leaves out the one still pending.
C20_Witness ==
    /\ response.view = "reviews"
    /\ response.viewer = Anonymous
    /\ response.room = NoRoom
    /\ \E i \in ReviewIds, j \in ReviewIds :
            /\ ReviewExists(i)
            /\ ReviewExists(j)
            /\ reviews[i].status = APPROVED
            /\ reviews[j].status = REVIEW_PENDING
            /\ i \in response.reviews
            /\ j \notin response.reviews

\* C21: a reply request changes a review only when it is a POST by the owner
\* of the reviewed room, and then owner_reply is the text sent and
\* owner_reply_at the time of the request; a request by anyone else leaves
\* owner_reply and owner_reply_at as they were.
C21_ReplyOnlyByOwner ==
    \A u \in Users, i \in ReviewIds, m \in FormMethods, text \in ReplyTexts :
        /\ ENABLED <<ReviewReplyView(u, i, m, text)>>_vars =>
                /\ ReviewExists(i)
                /\ room_owner[reviews[i].room] = u
                /\ m = "POST"
        /\ ~ENABLED (/\ ReviewReplyView(u, i, m, text)
                     /\ vars' # vars
                     /\ ~(/\ reviews'[i].owner_reply = text
                          /\ reviews'[i].owner_reply_at = today))

\* A review carries its owner's reply, and its author, asking to reply too,
\* would change nothing.
C21_Witness ==
    \E i \in ReviewIds :
        /\ ReviewExists(i)
        /\ reviews[i].owner_reply \in ReplyTexts
        /\ reviews[i].owner_reply_at # NoTime
        /\ \A text \in ReplyTexts :
                ~ENABLED <<ReviewReplyView(reviews[i].guest, i, "POST", text)>>_vars

\* C22: once a review has an owner reply, no step changes its owner_reply or
\* its owner_reply_at.
C22_ReplyAtMostOnce ==
    [][\A i \in ReviewIds :
        (ReviewExists(i) /\ reviews[i].owner_reply # "" /\ reviews'[i] # NoReview)
        => /\ reviews'[i].owner_reply = reviews[i].owner_reply
           /\ reviews'[i].owner_reply_at = reviews[i].owner_reply_at]_vars

\* C23: whatever rooms are created and updated, and whatever each request
\* uploads, no room has more than five images: its primary photo (none or
\* one) and its gallery images together are at most MAX_GALLERY_PHOTOS.
C23_AtMostFiveImages ==
    \A k \in RoomKeys :
        RoomRowExists(k) => image_count(images[k]) <= MAX_GALLERY_PHOTOS

\* A range [ci, co] that a form accepts and that touches booking e at one
\* end: it starts on e's check-out day or ends on e's check-in day.
Touches(e, ci, co) ==
    /\ BookingCreateForm(ci, co)
    /\ \/ ci = bookings[e].check_out_date
       \/ co = bookings[e].check_in_date

\* C24: the overlap test is inclusive at both ends.  For a Pending or
\* Confirmed booking e and a valid range that starts on e's check-out day or
\* ends on e's check-in day, a create for e's room that gets as far as the
\* conflict query is answered "conflict" and saves nothing, so is an update of
\* another booking of that room, and a search for the room's address and
\* that range does not return the room.
C24_TouchingRangeConflicts ==
    \A e \in BookingIds : \A ci \in Days, co \in Days :
        (Active(e) /\ Touches(e, ci, co)) =>
            /\ \A u \in Users :
                /\ CreateChecks(u, bookings[e].room, ci, co) # "ok"
                /\ CreateChecks_noConflict(u, bookings[e].room, ci, co) = "ok"
                     => CreateChecks(u, bookings[e].room, ci, co) = "conflict"
                /\ ~ENABLED <<BookingCreateView(u, bookings[e].room, ci, co)>>_vars
            /\ \A u \in Users : \A b \in BookingIds \ {e} :
                (Exists(b) /\ bookings[b].room = bookings[e].room) =>
                    /\ UpdateChecks(u, b, ci, co) # "ok"
                    /\ UpdateChecks_noConflict(u, b, ci, co) = "ok"
                         => UpdateChecks(u, b, ci, co) = "conflict"
                    /\ ~ENABLED <<update_booking_view(u, b, "POST", ci, co)>>_vars
            /\ bookings[e].room \notin
                   get_available_rooms(address[bookings[e].room], ci, co)

\* Two bookings of one room, and a range touching the first at one end, for
\* which both a create and an update of the second are answered "conflict".
C24_Witness ==
    \E e \in BookingIds, b \in BookingIds, u \in Users : \E ci \in Days, co \in Days :
        /\ e # b /\ Active(e) /\ Exists(b)
        /\ bookings[b].room = bookings[e].room
        /\ is_active[bookings[e].room]
        /\ Touches(e, ci, co)
        /\ ci > bookings[e].check_in_date
        /\ CreateChecks(u, bookings[e].room, ci, co) = "conflict"
        /\ UpdateChecks(bookings[b].guest, b, ci, co) = "conflict"

\* C25: whatever creates, confirmations, cancellations and date updates have
\* been served, every booking has its history record and the record's
\* new_status is the booking's current status.
C25_HistoryTracksStatus ==
    \A b \in BookingIds :
        Exists(b) =>
            /\ history[b] # NoHistory
            /\ history[b].new_status = bookings[b].status

\* A booking that was created, confirmed and then had its dates changed,
\* beside one that was created, confirmed and then cancelled.
C25_Witness ==
    \E b \in BookingIds, c \in BookingIds :
        /\ Exists(b)
        /\ bookings[b].status = CONFIRMED
        /\ history[b] # NoHistory
        /\ history[b].old_status = PENDING
        /\ history[b].change_description = "dates_changed"
        /\ Exists(c)
        /\ bookings[c].status = CANCELLED
        /\ history[c] # NoHistory
        /\ history[c].old_status = CONFIRMED

\* What a date update of booking b must leave alone: the booking's status,
\* guest and room, and old_status and new_status of its history record.
UpdateFrame(b) ==
    /\ Exists(b)'
    /\ bookings'[b].status = bookings[b].status
    /\ bookings'[b].guest = bookings[b].guest
    /\ bookings'[b].room = bookings[b].room
    /\ history[b] # NoHistory =>
        /\ history'[b] # NoHistory
        /\ history'[b].old_status = history[b].old_status
        /\ history'[b].new_status = history[b].new_status

\* C26: a date update leaves the booking's status, guest and room as they
\* were, and leaves old_status and new_status of the booking's existing
\* history record as they were: in no state can update_booking_view take a
\* step that breaks this frame.
C26_UpdateKeepsStatusGuestRoom ==
    \A u \in Users, b \in BookingIds, m \in FormMethods :
    \A ci \in Days, co \in Days :
        Exists(b) =>
            ~ENABLED (update_booking_view(u, b, m, ci, co) /\ ~UpdateFrame(b))

\* A Confirmed booking whose dates its guest has changed: the history record
\* carries the description of the date change and still Pending -> Confirmed.
C26_Witness ==
    \E b \in BookingIds :
        /\ Exists(b)
        /\ bookings[b].status = CONFIRMED
        /\ history[b] # NoHistory
        /\ history[b].change_description = "dates_changed"
        /\ history[b].changed_by = bookings[b].guest
        /\ history[b].old_status = PENDING
        /\ history[b].new_status = CONFIRMED

\* C27: search and create agree.  For every room r and every range with
\* today <= ci < co, a search for r's own address and that range returns r
\* exactly when a create for r and that range by a regular user who does not
\* own r passes the room-active check and the conflict check, which for such
\* a user and range is when the create is answered "ok".
C27_SearchAgreesWithCreate ==
    \A r \in Rooms : \A ci \in Days, co \in Days :
        (today <= ci /\ ci < co) =>
            \A u \in Users :
                (UserRequiredMixin(u) /\ room_owner[r] # u) =>
                    (r \in get_available_rooms(address[r], ci, co)
                        <=> CreateChecks(u, r, ci, co) = "ok")

\* A search for a room's address and a range has been answered with the
\* room, which has an active booking on other days, and a create for that
\* range is answered "ok"; for another range the room is not available and
\* the create is answered "conflict".
C27_Witness ==
    /\ response # NoResponse
    /\ response.view = "search"
    /\ response.check_in < response.check_out
    /\ today <= response.check_in
    /\ \E r \in Rooms :
        /\ r \in response.rooms
        /\ response.destination = address[r]
        /\ \E u \in Users : CreateChecks(u, r, response.check_in, response.check_out) = "ok"
        /\ \E b \in BookingIds : Active(b) /\ bookings[b].room = r
    /\ \E r \in Rooms, u \in Users : \E ci \in Days, co \in Days :
        /\ today <= ci /\ ci < co
        /\ r \notin get_available_rooms(address[r], ci, co)
        /\ CreateChecks(u, r, ci, co) = "conflict"

\* The guest of booking b wrote a review of another booking.
GuestHasReview(b) ==
    \E i \in ReviewIds :
        /\ ReviewExists(i)
        /\ reviews[i].guest = bookings[b].guest
        /\ reviews[i].booking # b

\* The room of booking b has a review.
RoomHasReview(b) ==
    \E i \in ReviewIds :
        ReviewExists(i) /\ reviews[i].room = bookings[b].room

\* Booking b has no review.
Unreviewed(b) ==
    Exists(b) /\ \A i \in ReviewIds : ReviewExists(i) => reviews[i].booking # b

C28_WitnessRoom ==
    \E b \in BookingIds :
        /\ Unreviewed(b)
        /\ RoomHasReview(b)
        /\ ~GuestHasReview(b)
        /\ nextReviewId <= MaxReviews
        /\ ReviewCreateChecks(bookings[b].guest, b, 5) = "already_reviewed"

\* What the author's edit of review i must leave alone: every field of the
\* row but the rating.
EditFrame(i) ==
    /\ ReviewExists(i)'
    /\ reviews'[i].status = reviews[i].status
    /\ reviews'[i].moderated_by = reviews[i].moderated_by
    /\ reviews'[i].moderated_at = reviews[i].moderated_at
    /\ reviews'[i].moderation_comment = reviews[i].moderation_comment
    /\ reviews'[i].owner_reply = reviews[i].owner_reply
    /\ reviews'[i].owner_reply_at = reviews[i].owner_reply_at
    /\ reviews'[i].booking = reviews[i].booking
    /\ reviews'[i].guest = reviews[i].guest
    /\ reviews'[i].room = reviews[i].room

\* C29: a guest's edit of their own review changes the rating (and the text)
\* only: status, moderated_by, moderated_at, moderation_comment and
\* owner_reply stay as they were, so an approved review stays approved.  In
\* no state can ReviewUpdateView take a step that breaks this frame.
C29_EditKeepsModeration ==
    \A u \in Users, i \in ReviewIds, rating \in Ratings :
        ReviewExists(i) =>
            ~ENABLED (ReviewUpdateView(u, i, rating) /\ ~EditFrame(i))

\* An approved review with a moderator's comment and the owner's reply,
\* which its author can edit to another rating.
C29_Witness ==
    \E i \in ReviewIds, rating \in 1..5 :
        /\ ReviewExists(i)
        /\ reviews[i].status = APPROVED
        /\ reviews[i].moderated_by # NoUser
        /\ reviews[i].moderation_comment # ""
        /\ reviews[i].owner_reply # ""
        /\ reviews[i].rating # rating
        /\ ENABLED <<ReviewUpdateView(reviews[i].guest, i, rating)>>_vars

\* C30: the middleware applies each role check to every path of its
\* restricted list.  A request for a path matching ADMIN_REQUIRED_URLS is
\* answered by the middleware with the redirect to the login page when the
\* viewer is not authenticated and with the 403 page when the viewer is
\* authenticated and no admin; likewise STAFF_REQUIRED_URLS for a viewer who
\* is no staff and USER_ONLY_URLS for one who is admin, staff or superuser.
C30_RestrictedPathsChecked ==
    (response # NoResponse /\ response.view = "middleware") =>
        LET v == response.user
            path == response.path
        IN  /\ matches_any(path, ADMIN_REQUIRED_URLS) =>
                IF v = Anonymous THEN response.answer = "redirect_login"
                ELSE ~is_admin(v) => response.answer = "access_denied"
            /\ matches_any(path, STAFF_REQUIRED_URLS) =>
                IF v = Anonymous THEN response.answer = "redirect_login"
                ELSE ~is_staff(v) => response.answer = "access_denied"
            /\ matches_any(path, USER_ONLY_URLS) =>
                IF v = Anonymous THEN response.answer = "redirect_login"
                ELSE (is_admin(v) \/ is_staff(v) \/ is_superuser[v])
                        => response.answer = "access_denied"

====
